---- MODULE Spec2Model ----
(***************************************************************************)
(* Chain shooting mechanics of src/demo/chain.rs: the two Update systems   *)
(* handle_chain_input and cleanup_expired_chains, the ChainState registry, *)
(* the entities they spawn and despawn through deferred Commands, and the  *)
(* geometry of a freshly built chain.                                      *)
(*                                                                         *)
(* f32 values are modelled as exact extended rationals [n, d]: d > 0 is a  *)
(* finite number in lowest terms, 1/0 and -1/0 are the infinities and 0/0  *)
(* is NaN, so that 1/0, 0 * inf and NaN propagation behave as in IEEE 754. *)
(***************************************************************************)
EXTENDS Integers, Sequences, FiniteSets, TLC

VARIABLES
    chains,      \* ChainState.chains: Vec<Chain>, each [links, joints]
    world,       \* live entities: entity id -> its components
    queue,       \* Commands issued this frame and not yet applied
    nextEntity,  \* next entity id Commands::spawn reserves
    input,       \* this frame's snapshot: mouse buttons, player, cursor, delta
    ran,         \* systems of the Update set that ran this frame, in order
    phase,       \* "idle" between frames, "update" while the systems run
    spawned      \* number of chains built so far

vars == <<chains, world, queue, nextEntity, input, ran, phase, spawned>>

----------------------------------------------------------------------------
(* Bounds of the model *)

\* chains spawned over a run of the lifecycle specification
MaxChains == 3
\* chains spawned over a run of the specification with fairness
MaxLiveChains == 2
\* cursor offset of the specification with fairness, in steps
LiveReach == 8
\* largest frame delta, in seconds
MaxDelta == 2
\* cursor offsets of the lifecycle specification: 0 or LifeReach steps
LifeReach == 12
\* cursor offsets of the geometry specification: k steps, k \in 0..MaxGeomSteps
MaxGeomSteps == 24

----------------------------------------------------------------------------
(* Program constants *)

\* let link_size = 20.0
LinkSize == 20
\* let impulse_strength = 200.0
ImpulseStrength == 200
\* Timer::from_seconds(5.0, TimerMode::Once)
LifetimeSeconds == 5
\* width of usize, where the float-to-usize cast saturates
UsizeBits == 64

----------------------------------------------------------------------------
(* f32 arithmetic on extended rationals *)

Abs(n) == IF n < 0 THEN -n ELSE n

Sign(n) == IF n < 0 THEN -1 ELSE IF n > 0 THEN 1 ELSE 0

RECURSIVE GCD(_, _)
GCD(a, b) == IF b = 0 THEN a ELSE GCD(b, a % b)

\* n/d in lowest terms with d >= 0; n/0 is an infinity (n # 0) or NaN (n = 0)
Rat(n, d) ==
    IF d = 0 THEN [n |-> Sign(n), d |-> 0]
    ELSE LET g == GCD(Abs(n), Abs(d))
             s == Sign(d)
         IN  [n |-> (s * n) \div g, d |-> (s * d) \div g]

F(n) == Rat(n, 1)

NaN == [n |-> 0, d |-> 0]

IsNaN(a) == a.d = 0 /\ a.n = 0

IsFinite(a) == a.d # 0

FMul(a, b) == Rat(a.n * b.n, a.d * b.d)

FAdd(a, b) ==
    IF a.d = 0 /\ b.d = 0
    THEN (IF a.n = b.n THEN a ELSE NaN)
    ELSE Rat(a.n * b.d + b.n * a.d, a.d * b.d)

FNeg(a) == [n |-> -a.n, d |-> a.d]

FSub(a, b) == FAdd(a, FNeg(b))

\* a / b, with x/0 = +-inf and 0/0 = NaN
FDiv(a, b) == Rat(a.n * b.d * (IF b.n < 0 THEN -1 ELSE 1), a.d * Abs(b.n))

\* a < b; false when either side is NaN
FLess(a, b) ==
    /\ ~IsNaN(a) /\ ~IsNaN(b)
    /\ IF a.d = 0 /\ b.d = 0 THEN a.n < b.n
       ELSE IF a.d = 0 THEN a.n < 0
       ELSE IF b.d = 0 THEN b.n > 0
       ELSE a.n * b.d < b.n * a.d

FLeq(a, b) == ~IsNaN(a) /\ ~IsNaN(b) /\ (a = b \/ FLess(a, b))

\* f32::max: the other operand when one is NaN
FMax(a, b) ==
    IF IsNaN(a) THEN b
    ELSE IF IsNaN(b) THEN a
    ELSE IF FLess(a, b) THEN b ELSE a

\* `x as usize`: truncates toward zero, saturates, NaN becomes 0
AsUsize(a) ==
    IF IsNaN(a) THEN 0
    ELSE IF a.d = 0 THEN (IF a.n > 0 THEN 2 ^ UsizeBits - 1 ELSE 0)
    ELSE IF a.n < 0 THEN 0
    ELSE a.n \div a.d

\* the largest r with r * r <= s
ISqrt(s) == CHOOSE r \in 0..s : r * r <= s /\ (r + 1) * (r + 1) > s

\* f32::sqrt, exact on the squares of rationals the model's inputs produce
FSqrt(a) ==
    IF IsNaN(a) \/ a.n < 0 THEN NaN
    ELSE IF a.d = 0 THEN a
    ELSE Rat(ISqrt(a.n), ISqrt(a.d))

----------------------------------------------------------------------------
(* glam::Vec2 *)

Vec2(x, y) == [x |-> x, y |-> y]

VAdd(u, v) == Vec2(FAdd(u.x, v.x), FAdd(u.y, v.y))

VSub(u, v) == Vec2(FSub(u.x, v.x), FSub(u.y, v.y))

VScale(u, k) == Vec2(FMul(u.x, k), FMul(u.y, k))

VDot(u, v) == FAdd(FMul(u.x, v.x), FMul(u.y, v.y))

VLength(u) == FSqrt(VDot(u, u))

\* Vec2::length_recip
VLengthRecip(u) == FDiv(F(1), VLength(u))

\* Vec2::normalize: self * self.length_recip(), NaN components for the zero vector
VNormalize(u) == VScale(u, VLengthRecip(u))

VIsFinite(u) == IsFinite(u.x) /\ IsFinite(u.y)

----------------------------------------------------------------------------
(* Option<T>: None is the empty sequence, Some(x) the one-element sequence *)

None == <<>>

Some(x) == <<x>>

Unwrap(o) == o[1]

----------------------------------------------------------------------------
(* Geometry of a new chain (handle_chain_input, the left-click branch) *)

\* (cursor_world_pos - player_transform.translation.truncate()).normalize()
ChainDirection(player, cursor) == VNormalize(VSub(cursor, player))

\* (cursor_world_pos - player_transform.translation.truncate()).length()
ChainLength(player, cursor) == VLength(VSub(cursor, player))

\* link_size * 0.5
CapsuleHalfLength == FMul(F(LinkSize), Rat(1, 2))

\* capsule_half_length * 2.0
ActualLinkSpacing == FMul(CapsuleHalfLength, F(2))

\* a variant that forgets .max(1.0)
NumLinksNoMax(player, cursor) ==
    AsUsize(FDiv(ChainLength(player, cursor), ActualLinkSpacing))

\* (chain_length / actual_link_spacing).max(1.0) as usize
NumLinks(player, cursor) ==
    AsUsize(FMax(FDiv(ChainLength(player, cursor), ActualLinkSpacing), F(1)))

\* i as f32 / num_links.max(1) as f32
LinkProgress(i, num_links) ==
    FDiv(F(i), F(IF num_links > 1 THEN num_links ELSE 1))

\* a variant that spreads the links over num_links spacings instead of num_links - 1
LinkPosFullSpan(player, chain_direction, i, num_links) ==
    VAdd(player,
         VScale(VScale(chain_direction, FDiv(F(i + 1), F(num_links))),
                FMul(ActualLinkSpacing, F(num_links))))

\* a variant that puts the end of the first link, not its centre, at the player
LinkPosFromEnd(player, chain_direction, i, num_links) ==
    VAdd(VAdd(player, VScale(chain_direction, CapsuleHalfLength)),
         VScale(VScale(chain_direction, LinkProgress(i, num_links)),
                FMul(ActualLinkSpacing, F(num_links - 1))))

\* player + chain_direction * link_progress * (actual_link_spacing * (num_links - 1))
LinkPos(player, chain_direction, i, num_links) ==
    VAdd(player,
         VScale(VScale(chain_direction, LinkProgress(i, num_links)),
                FMul(ActualLinkSpacing, F(num_links - 1))))

\* The angle atan2(y, x), represented by its unit vector [cos, sin]:
\* NaN when an argument is NaN, the angle 0 for atan2(0, 0).
Atan2(y, x) ==
    IF IsNaN(y) \/ IsNaN(x) THEN [cos |-> NaN, sin |-> NaN]
    ELSE IF x.n = 0 /\ y.n = 0 THEN [cos |-> F(1), sin |-> F(0)]
    ELSE LET u == VNormalize(Vec2(x, y)) IN [cos |-> u.x, sin |-> u.y]

\* Quat::from_rotation_z(chain_direction.y.atan2(chain_direction.x))
LinkRotation(chain_direction) == Atan2(chain_direction.y, chain_direction.x)

\* chain_direction * impulse_strength
Impulse(chain_direction) == VScale(chain_direction, F(ImpulseStrength))

\* the components a link is spawned with
LinkBundle(i, link_pos, link_rotation) ==
    [kind        |-> "link",
     link_index  |-> i,
     translation |-> link_pos,
     rotation    |-> link_rotation,
     root        |-> FALSE,
     lifetime    |-> None,
     impulse     |-> None]

\* a variant that passes the two bodies in the other order
JointBundleSwapped(prev_entity, current_entity) ==
    [kind          |-> "joint",
     entity1       |-> current_entity,
     entity2       |-> prev_entity,
     local_anchor1 |-> Vec2(CapsuleHalfLength, F(0)),
     local_anchor2 |-> Vec2(FNeg(CapsuleHalfLength), F(0))]

\* RevoluteJoint::new(prev_entity, current_entity) with its two local anchors
JointBundle(prev_entity, current_entity) ==
    [kind          |-> "joint",
     entity1       |-> prev_entity,
     entity2       |-> current_entity,
     local_anchor1 |-> Vec2(CapsuleHalfLength, F(0)),
     local_anchor2 |-> Vec2(FNeg(CapsuleHalfLength), F(0))]

\* ChainLifetime::default(): a Once timer with nothing elapsed
DefaultLifetime == [elapsed |-> 0, finished |-> FALSE]

\* a variant that spawns the joint but forgets joints.push(joint_entity)
SpawnLinkNoJointPush(i, num_links, player, chain_direction, st) ==
    LET current_entity == st.next
        has_prev == st.previous_entity # None
        joint_entity == current_entity + 1
        spawn_link == [op |-> "spawn", entity |-> current_entity,
                       bundle |-> LinkBundle(i,
                                    LinkPos(player, chain_direction, i, num_links),
                                    LinkRotation(chain_direction))]
        insert_root == IF i = 0
                       THEN <<[op |-> "insert_root", entity |-> current_entity,
                               lifetime |-> DefaultLifetime]>>
                       ELSE <<>>
        spawn_joint == IF has_prev
                       THEN <<[op |-> "spawn", entity |-> joint_entity,
                               bundle |-> JointBundle(Unwrap(st.previous_entity),
                                                      current_entity)]>>
                       ELSE <<>>
    IN  [previous_entity |-> Some(current_entity),
         links  |-> Append(st.links, current_entity),
         joints |-> st.joints,
         cmds   |-> st.cmds \o <<spawn_link>> \o insert_root \o spawn_joint,
         next   |-> IF has_prev THEN current_entity + 2 ELSE current_entity + 1]

\* a variant that pushes the previous link's handle, when there is one, into links
SpawnLinkPushesPrevious(i, num_links, player, chain_direction, st) ==
    LET current_entity == st.next
        has_prev == st.previous_entity # None
        joint_entity == current_entity + 1
        spawn_link == [op |-> "spawn", entity |-> current_entity,
                       bundle |-> LinkBundle(i,
                                    LinkPos(player, chain_direction, i, num_links),
                                    LinkRotation(chain_direction))]
        insert_root == IF i = 0
                       THEN <<[op |-> "insert_root", entity |-> current_entity,
                               lifetime |-> DefaultLifetime]>>
                       ELSE <<>>
        spawn_joint == IF has_prev
                       THEN <<[op |-> "spawn", entity |-> joint_entity,
                               bundle |-> JointBundle(Unwrap(st.previous_entity),
                                                      current_entity)]>>
                       ELSE <<>>
    IN  [previous_entity |-> Some(current_entity),
         links  |-> Append(st.links, IF has_prev THEN Unwrap(st.previous_entity)
                                     ELSE current_entity),
         joints |-> IF has_prev THEN Append(st.joints, joint_entity) ELSE st.joints,
         cmds   |-> st.cmds \o <<spawn_link>> \o insert_root \o spawn_joint,
         next   |-> IF has_prev THEN current_entity + 2 ELSE current_entity + 1]

\* One iteration of `for i in 0..num_links`; st carries previous_entity, links,
\* joints, the commands issued so far and the next entity id to reserve.
SpawnLink(i, num_links, player, chain_direction, st) ==
    LET current_entity == st.next
        has_prev == st.previous_entity # None
        joint_entity == current_entity + 1
        spawn_link == [op |-> "spawn", entity |-> current_entity,
                       bundle |-> LinkBundle(i,
                                    LinkPos(player, chain_direction, i, num_links),
                                    LinkRotation(chain_direction))]
        insert_root == IF i = 0
                       THEN <<[op |-> "insert_root", entity |-> current_entity,
                               lifetime |-> DefaultLifetime]>>
                       ELSE <<>>
        spawn_joint == IF has_prev
                       THEN <<[op |-> "spawn", entity |-> joint_entity,
                               bundle |-> JointBundle(Unwrap(st.previous_entity),
                                                      current_entity)]>>
                       ELSE <<>>
    IN  [previous_entity |-> Some(current_entity),
         links  |-> Append(st.links, current_entity),
         joints |-> IF has_prev THEN Append(st.joints, joint_entity) ELSE st.joints,
         cmds   |-> st.cmds \o <<spawn_link>> \o insert_root \o spawn_joint,
         next   |-> IF has_prev THEN current_entity + 2 ELSE current_entity + 1]

RECURSIVE SpawnLoop(_, _, _, _, _)
SpawnLoop(i, num_links, player, chain_direction, st) ==
    IF i >= num_links THEN st
    ELSE SpawnLoop(i + 1, num_links, player, chain_direction,
                   SpawnLink(i, num_links, player, chain_direction, st))

\* The left-click branch with a player and a cursor: the chain built, the
\* commands issued and the next free entity id.
BuildChain(player, cursor, next) ==
    LET chain_direction == ChainDirection(player, cursor)
        num_links == NumLinks(player, cursor)
        built == SpawnLoop(0, num_links, player, chain_direction,
                           [previous_entity |-> None, links |-> <<>>,
                            joints |-> <<>>, cmds |-> <<>>, next |-> next])
        impulse == IF built.links # <<>>
                   THEN <<[op |-> "insert_impulse", entity |-> built.links[1],
                           impulse |-> Impulse(chain_direction)]>>
                   ELSE <<>>
    IN  [chain |-> [links |-> built.links, joints |-> built.joints],
         cmds  |-> built.cmds \o impulse,
         next  |-> built.next]

----------------------------------------------------------------------------
(* The frame's input snapshot *)

\* between frames: no button just pressed, nothing read
NoInput ==
    [left |-> FALSE, right |-> FALSE, player |-> None, window |-> FALSE,
     cursor_position |-> None, camera |-> FALSE, delta |-> 0]

\* a variant that does not look for the camera
GetCursorWorldPositionNoCamera(in) ==
    IF ~in.window THEN None ELSE in.cursor_position

\* get_cursor_world_position: None without a single primary window, with the
\* cursor outside the window, or without a single camera that can project it.
\* The projection itself is the engine's; the snapshot holds the cursor
\* already in world coordinates.
GetCursorWorldPosition(in) ==
    IF ~in.window THEN None
    ELSE IF in.cursor_position = None THEN None
    ELSE IF ~in.camera THEN None
    ELSE in.cursor_position

\* The two systems are added to Update without an order between them: each
\* runs once per frame, in either order.
HasRun(system) == \E k \in DOMAIN ran : ran[k] = system

\* mouse_input.just_pressed(MouseButton::Left)
LeftJustPressed(in) == in.left

\* mouse_input.just_pressed(MouseButton::Right)
RightJustPressed(in) == in.right

\* player_query.single(): the translation of the one player, if there is one
PlayerSingle(in) == in.player

----------------------------------------------------------------------------
(* handle_chain_input *)

\* a variant that despawns the links and forgets the joints
DespawnChainLinksOnly(chain) ==
    [k \in 1..Len(chain.links) |-> [op |-> "despawn", entity |-> chain.links[k]]]

\* despawn commands for all links, then all joints, of a chain
DespawnChain(chain) ==
    [k \in 1..Len(chain.links) |-> [op |-> "despawn", entity |-> chain.links[k]]]
    \o [k \in 1..Len(chain.joints) |-> [op |-> "despawn", entity |-> chain.joints[k]]]

\* whether the left-click branch reaches the chain construction
SpawnsChain(in) ==
    /\ LeftJustPressed(in)
    /\ PlayerSingle(in) # None
    /\ GetCursorWorldPosition(in) # None

\* a variant that registers the new chain in front of the others
LeftClickPrepend(in, st) ==
    IF SpawnsChain(in)
    THEN LET built == BuildChain(Unwrap(PlayerSingle(in)),
                                 Unwrap(GetCursorWorldPosition(in)), st.next)
         IN  [chains |-> <<built.chain>> \o st.chains,
              cmds   |-> st.cmds \o built.cmds,
              next   |-> built.next]
    ELSE st

\* a variant in single-chain mode: the chains registered are despawned and
\* replaced by the new one
LeftClickReplace(in, st) ==
    IF SpawnsChain(in)
    THEN LET built == BuildChain(Unwrap(PlayerSingle(in)),
                                 Unwrap(GetCursorWorldPosition(in)), st.next)
             RECURSIVE DespawnAll(_)
             DespawnAll(chs) ==
                 IF chs = <<>> THEN <<>>
                 ELSE DespawnChain(Head(chs)) \o DespawnAll(Tail(chs))
         IN  [chains |-> <<built.chain>>,
              cmds   |-> st.cmds \o DespawnAll(st.chains) \o built.cmds,
              next   |-> built.next]
    ELSE st

\* the left-click branch: st is [chains, cmds, next]
LeftClick(in, st) ==
    IF SpawnsChain(in)
    THEN LET built == BuildChain(Unwrap(PlayerSingle(in)),
                                 Unwrap(GetCursorWorldPosition(in)), st.next)
         IN  [chains |-> Append(st.chains, built.chain),
              cmds   |-> st.cmds \o built.cmds,
              next   |-> built.next]
    ELSE st

\* a variant that takes the last chain
NewestIndex(chs) == Len(chs)

\* chain_state.chains.first(): the index of the chain a right click removes
OldestIndex(chs) == 1

\* a variant that fills the hole with the last chain (Vec::swap_remove)
RemoveAtSwap(chs, index) ==
    [k \in 1..(Len(chs) - 1) |-> IF k = index THEN chs[Len(chs)] ELSE chs[k]]

\* chain_state.chains.remove(index)
RemoveAt(chs, index) ==
    [k \in 1..(Len(chs) - 1) |-> IF k < index THEN chs[k] ELSE chs[k + 1]]

\* a variant that, finding the registry empty, despawns the oldest live root
RightClickByQuery(in, st) ==
    IF RightJustPressed(in) /\ st.chains # <<>>
    THEN LET oldest_chain == st.chains[OldestIndex(st.chains)]
         IN  [chains |-> RemoveAt(st.chains, OldestIndex(st.chains)),
              cmds   |-> st.cmds \o DespawnChain(oldest_chain),
              next   |-> st.next]
    ELSE IF RightJustPressed(in)
            /\ \E e \in DOMAIN world : world[e].kind = "link" /\ world[e].root
    THEN LET live == {e \in DOMAIN world : world[e].kind = "link" /\ world[e].root}
             root == CHOOSE e \in live : \A o \in live : e <= o
         IN  [chains |-> st.chains,
              cmds   |-> Append(st.cmds, [op |-> "despawn", entity |-> root]),
              next   |-> st.next]
    ELSE st

\* the right-click branch
RightClick(in, st) ==
    IF RightJustPressed(in) /\ st.chains # <<>>
    THEN LET oldest_chain == st.chains[OldestIndex(st.chains)]
         IN  [chains |-> RemoveAt(st.chains, OldestIndex(st.chains)),
              cmds   |-> st.cmds \o DespawnChain(oldest_chain),
              next   |-> st.next]
    ELSE st

\* a variant that handles the right click before the left click
HandleChainInputRightFirst ==
    /\ phase = "update"
    /\ ~HasRun("handle_chain_input")
    /\ LET st0 == [chains |-> chains, cmds |-> queue, next |-> nextEntity]
           st2 == LeftClick(input, RightClick(input, st0))
       IN  /\ chains' = st2.chains
           /\ queue' = st2.cmds
           /\ nextEntity' = st2.next
           /\ spawned' = IF SpawnsChain(input) THEN spawned + 1 ELSE spawned
    /\ ran' = Append(ran, "handle_chain_input")
    /\ UNCHANGED <<world, input, phase>>

HandleChainInput ==
    /\ phase = "update"
    /\ ~HasRun("handle_chain_input")
    /\ LET st0 == [chains |-> chains, cmds |-> queue, next |-> nextEntity]
           st2 == RightClick(input, LeftClick(input, st0))
       IN  /\ chains' = st2.chains
           /\ queue' = st2.cmds
           /\ nextEntity' = st2.next
           /\ spawned' = IF SpawnsChain(input) THEN spawned + 1 ELSE spawned
    /\ ran' = Append(ran, "handle_chain_input")
    /\ UNCHANGED <<world, input, phase>>

----------------------------------------------------------------------------
(* cleanup_expired_chains *)

\* a variant that needs the duration to be exceeded
TimerFinishedStrict(elapsed) == elapsed > LifetimeSeconds

\* whether a timer that has elapsed this long is finished
TimerFinished(elapsed) == elapsed >= LifetimeSeconds

\* a variant that keeps the last delta instead of accumulating
TimerTickNoAccumulate(lifetime, delta) ==
    IF lifetime.finished THEN lifetime
    ELSE IF TimerFinished(delta)
         THEN [elapsed |-> LifetimeSeconds, finished |-> TRUE]
         ELSE [elapsed |-> delta, finished |-> FALSE]

\* Timer::tick in TimerMode::Once: a finished timer stays as it is, otherwise
\* the delta is added and the elapsed time clamped to the duration
TimerTick(lifetime, delta) ==
    IF lifetime.finished THEN lifetime
    ELSE LET elapsed == lifetime.elapsed + delta
         IN  IF TimerFinished(elapsed)
             THEN [elapsed |-> LifetimeSeconds, finished |-> TRUE]
             ELSE [elapsed |-> elapsed, finished |-> FALSE]

\* Query<(Entity, &mut ChainLifetime), With<ChainRoot>>
LifetimeQuery(w) ==
    {e \in DOMAIN w : w[e].kind = "link" /\ w[e].root /\ w[e].lifetime # None}

\* a variant that matches the entity against the last link of a chain
PositionOfLast(chs, entity) ==
    LET hits == {k \in 1..Len(chs) :
                    chs[k].links # <<>> /\ chs[k].links[Len(chs[k].links)] = entity}
    IN  IF hits = {} THEN 0 ELSE CHOOSE k \in hits : \A j \in hits : k <= j

\* chains.iter().position(|chain| chain.links.first() == Some(&entity)),
\* 0 when there is none
PositionOfRoot(chs, entity) ==
    LET hits == {k \in 1..Len(chs) :
                    chs[k].links # <<>> /\ chs[k].links[1] = entity}
    IN  IF hits = {} THEN 0 ELSE CHOOSE k \in hits : \A j \in hits : k <= j

\* a variant that falls back to the oldest chain when the root is not found
SweepRootOrOldest(entity, delta, st) ==
    LET lifetime == TimerTick(Unwrap(st.world[entity].lifetime), delta)
        ticked == [st.world EXCEPT ![entity].lifetime = Some(lifetime)]
        found == PositionOfRoot(st.chains, entity)
        index == IF found = 0 /\ st.chains # <<>> THEN 1 ELSE found
    IN  IF lifetime.finished /\ index # 0
        THEN [chains |-> RemoveAt(st.chains, index),
              world  |-> ticked,
              cmds   |-> st.cmds \o DespawnChain(st.chains[index])]
        ELSE [chains |-> st.chains, world |-> ticked, cmds |-> st.cmds]

\* the body of the sweep's loop for one root; st is [chains, world, cmds]
SweepRoot(entity, delta, st) ==
    LET lifetime == TimerTick(Unwrap(st.world[entity].lifetime), delta)
        ticked == [st.world EXCEPT ![entity].lifetime = Some(lifetime)]
        index == PositionOfRoot(st.chains, entity)
    IN  IF lifetime.finished /\ index # 0
        THEN [chains |-> RemoveAt(st.chains, index),
              world  |-> ticked,
              cmds   |-> st.cmds \o DespawnChain(st.chains[index])]
        ELSE [chains |-> st.chains, world |-> ticked, cmds |-> st.cmds]

RECURSIVE Sweep(_, _, _)
Sweep(order, delta, st) ==
    IF order = <<>> THEN st
    ELSE Sweep(Tail(order), delta, SweepRoot(Head(order), delta, st))

\* the orders in which a query may visit a set of entities
Orders(S) ==
    {o \in [1..Cardinality(S) -> S] : \A a, b \in DOMAIN o : a # b => o[a] # o[b]}

CleanupExpiredChains ==
    /\ phase = "update"
    /\ ~HasRun("cleanup_expired_chains")
    /\ \E order \in Orders(LifetimeQuery(world)) :
          LET st == Sweep(order, input.delta,
                          [chains |-> chains, world |-> world, cmds |-> queue])
          IN  /\ chains' = st.chains
              /\ world' = st.world
              /\ queue' = st.cmds
    /\ ran' = Append(ran, "cleanup_expired_chains")
    /\ UNCHANGED <<nextEntity, input, phase, spawned>>

----------------------------------------------------------------------------
(* Deferred commands, applied when both systems of the set have run *)

\* one command applied to the world; a command for an entity that does not
\* exist is dropped
ApplyCommand(cmd, w) ==
    IF cmd.op = "spawn"
        THEN (cmd.entity :> cmd.bundle) @@ w
    ELSE IF cmd.entity \notin DOMAIN w
        THEN w
    ELSE IF cmd.op = "insert_root"
        THEN [w EXCEPT ![cmd.entity].root = TRUE,
                       ![cmd.entity].lifetime = Some(cmd.lifetime)]
    ELSE IF cmd.op = "insert_impulse"
        THEN [w EXCEPT ![cmd.entity].impulse = Some(cmd.impulse)]
    ELSE [e \in DOMAIN w \ {cmd.entity} |-> w[e]]

RECURSIVE ApplyCommands(_, _)
ApplyCommands(cmds, w) ==
    IF cmds = <<>> THEN w
    ELSE ApplyCommands(Tail(cmds), ApplyCommand(Head(cmds), w))

ApplyDeferred ==
    /\ phase = "update"
    /\ HasRun("handle_chain_input")
    /\ HasRun("cleanup_expired_chains")
    /\ world' = ApplyCommands(queue, world)
    /\ queue' = <<>>
    /\ phase' = "idle"
    /\ input' = NoInput
    /\ ran' = <<>>
    /\ UNCHANGED <<chains, nextEntity, spawned>>

----------------------------------------------------------------------------
(* The environment: what a frame's snapshot may hold *)

\* cursor offsets from the player, as multiples of vectors of length 5, so
\* that every distance is a whole number and FSqrt is exact
Offsets(dirs, steps) ==
    {Vec2(F(k * u[1]), F(k * u[2])) : k \in steps, u \in dirs}

LifeDirs == {<<-3, 4>>}

LifeSteps == {0, LifeReach}

LifePlayers == {Vec2(F(-15), F(10))}

GeomDirs == {<<5, 0>>, <<0, -5>>, <<-3, 4>>, <<-4, -3>>}

GeomSteps == 0..MaxGeomSteps

GeomPlayers == {Vec2(F(0), F(0)), Vec2(F(-15), F(10))}

Deltas == 0..MaxDelta

\* The player and the cursor are read only in a frame with a left click, and
\* the cursor only when there is a player: a snapshot leaves out what the
\* systems do not read.
NoClickSnapshots ==
    {[left |-> FALSE, right |-> r, player |-> None, window |-> FALSE,
      cursor_position |-> None, camera |-> FALSE, delta |-> d] :
        r \in BOOLEAN, d \in Deltas}

NoPlayerSnapshots ==
    {[left |-> TRUE, right |-> r, player |-> None, window |-> FALSE,
      cursor_position |-> None, camera |-> FALSE, delta |-> d] :
        r \in BOOLEAN, d \in Deltas}

NoCursorSnapshots(players) ==
    {[left |-> TRUE, right |-> r, player |-> Some(p),
      window |-> (why # "no window"),
      cursor_position |-> (IF why = "no camera" THEN Some(p) ELSE None),
      camera |-> (why = "cursor outside"), delta |-> d] :
        r \in BOOLEAN, d \in Deltas, p \in players,
        why \in {"no window", "cursor outside", "no camera"}}

AimedSnapshots(players, offsets) ==
    {[left |-> TRUE, right |-> r, player |-> Some(p), window |-> TRUE,
      cursor_position |-> Some(VAdd(p, o)), camera |-> TRUE, delta |-> d] :
        r \in BOOLEAN, d \in Deltas, p \in players, o \in offsets}

Snapshots(players, offsets, limit) ==
    NoClickSnapshots \cup
    (IF spawned < limit
     THEN NoPlayerSnapshots \cup NoCursorSnapshots(players)
          \cup AimedSnapshots(players, offsets)
     ELSE {})

StartFrame(snapshots) ==
    /\ phase = "idle"
    /\ input' \in snapshots
    /\ phase' = "update"
    /\ UNCHANGED <<chains, world, queue, nextEntity, ran, spawned>>

BeginFrame ==
    StartFrame(Snapshots(LifePlayers, Offsets(LifeDirs, LifeSteps), MaxChains))

BeginFrameGeom ==
    StartFrame(Snapshots(GeomPlayers, Offsets(GeomDirs, GeomSteps), 1))

\* the snapshots of the specification with fairness: a left click is aimed
\* LiveReach steps away
LiveSnapshots ==
    NoClickSnapshots \cup
    (IF spawned < MaxLiveChains
     THEN AimedSnapshots(LifePlayers, Offsets(LifeDirs, {LiveReach}))
     ELSE {})

BeginFrameLive == StartFrame(LiveSnapshots)

----------------------------------------------------------------------------
(* Specifications *)

Init ==
    /\ chains = <<>>
    /\ world = <<>>
    /\ queue = <<>>
    /\ nextEntity = 1
    /\ input = NoInput
    /\ ran = <<>>
    /\ phase = "idle"
    /\ spawned = 0

Next ==
    \/ BeginFrame
    \/ HandleChainInput
    \/ CleanupExpiredChains
    \/ ApplyDeferred

\* the lifecycle of several chains
Spec == Init /\ [][Next]_vars

NextGeom ==
    \/ BeginFrameGeom
    \/ HandleChainInput
    \/ CleanupExpiredChains
    \/ ApplyDeferred

\* one chain, over a wide range of player and cursor positions
SpecGeom == Init /\ [][NextGeom]_vars

NextLive ==
    \/ BeginFrameLive
    \/ HandleChainInput
    \/ CleanupExpiredChains
    \/ ApplyDeferred

\* A system has not run yet in the frame under way. HandleChainInput and
\* CleanupExpiredChains have no other guard, and each extends ran with its own
\* name: InputPending is ENABLED <<HandleChainInput>>_vars and CleanupPending
\* is ENABLED <<CleanupExpiredChains>>_vars, and a step of the action ends it.
InputPending == phase = "update" /\ ~HasRun("handle_chain_input")

CleanupPending == phase = "update" /\ ~HasRun("cleanup_expired_chains")

\* The lifecycle under the schedule's guarantees: in a frame whose snapshot is
\* taken, the Update schedule runs each of the two systems once and then
\* applies the deferred commands. Whether frames keep coming, and with which
\* delta, is left to the environment. The first two conditions are
\* WF_vars(HandleChainInput) and WF_vars(CleanupExpiredChains): no system is
\* left pending for ever.
SpecLive ==
    /\ Init
    /\ [][NextLive]_vars
    /\ []<>~InputPending
    /\ []<>~CleanupPending
    /\ WF_vars(ApplyDeferred)

----------------------------------------------------------------------------
(* What the claims speak of *)

\* the state right after handle_chain_input built a chain in this frame
JustSpawned ==
    /\ phase = "update"
    /\ HasRun("handle_chain_input")
    /\ input.left
    /\ input.player # None
    /\ input.window /\ input.camera /\ input.cursor_position # None

\* the player position and the cursor position of this frame
Anchor == input.player[1]

Target == input.cursor_position[1]

\* the squared distance from the anchor to the target (the coordinates of the
\* snapshots are whole numbers)
DistSq ==
    (Target.x.n - Anchor.x.n) * (Target.x.n - Anchor.x.n)
    + (Target.y.n - Anchor.y.n) * (Target.y.n - Anchor.y.n)

\* the spacing of the claims: 2 * capsule half-length = 20
SpacingOfClaims == 2 * (LinkSize \div 2)

\* the link and joint spawn commands of this frame, in the order issued (a
\* frame builds at most one chain)
IsLinkSpawn(c) == c.op = "spawn" /\ c.bundle.kind = "link"

IsJointSpawn(c) == c.op = "spawn" /\ c.bundle.kind = "joint"

NewLinks == SelectSeq(queue, IsLinkSpawn)

NewJoints == SelectSeq(queue, IsJointSpawn)

\* the components an entity has, or is about to be spawned with
Bundle(e) ==
    IF e \in DOMAIN world THEN world[e]
    ELSE LET k == CHOOSE k \in DOMAIN queue :
                      queue[k].op = "spawn" /\ queue[k].entity = e
         IN  queue[k].bundle

Known(e) ==
    \/ e \in DOMAIN world
    \/ \E k \in DOMAIN queue : queue[k].op = "spawn" /\ queue[k].entity = e

\* whether n = max(1, floor(d / s)) for the distance d with d * d = dsq
IsLinkCountFor(n, dsq, s) ==
    \/ n = 1 /\ dsq < (2 * s) * (2 * s)
    \/ n > 1 /\ (n * s) * (n * s) <= dsq /\ dsq < ((n + 1) * s) * ((n + 1) * s)

----------------------------------------------------------------------------
(* C1 *)

\* C1: for every anchor and target at a distance d > 0, the primary action
\* builds a chain of exactly max(1, floor(d / 20)) links.
Thm_C1 ==
    (JustSpawned /\ DistSq > 0)
        => IsLinkCountFor(Len(NewLinks), DistSq, SpacingOfClaims)

\* a chain of 5 links built for a target 100 away
Wit_C1 ==
    /\ JustSpawned
    /\ DistSq = 100 * 100
    /\ Len(NewLinks) = 5

----------------------------------------------------------------------------
(* C2 *)

\* the point anchor + direction * (i * spacing), direction = (target - anchor) / d
SpacedPoint(i) ==
    LET d == F(ISqrt(DistSq))
        delta == VSub(Target, Anchor)
    IN  VAdd(Anchor, VScale(delta, FDiv(F(i * SpacingOfClaims), d)))

\* a link-local point in world coordinates: translation + rotation * local
Attach(bundle, local) ==
    VAdd(bundle.translation,
         Vec2(FSub(FMul(bundle.rotation.cos, local.x), FMul(bundle.rotation.sin, local.y)),
              FAdd(FMul(bundle.rotation.sin, local.x), FMul(bundle.rotation.cos, local.y))))

\* C2: link i of a new chain sits at anchor + direction * i * spacing, one
\* spacing from its neighbours, so that the two attachment points of every
\* joint (+half_length on link i-1, -half_length on link i) coincide at spawn.
Cex_C2 ==
    (JustSpawned /\ DistSq > 0)
        => /\ \A k \in DOMAIN NewLinks :
                 NewLinks[k].bundle.translation = SpacedPoint(k - 1)
           /\ \A k \in DOMAIN NewJoints :
                 Attach(NewLinks[k].bundle, NewJoints[k].bundle.local_anchor1)
                    = Attach(NewLinks[k + 1].bundle, NewJoints[k].bundle.local_anchor2)

----------------------------------------------------------------------------
(* C3 *)

\* the squared distance between two points, as an f32
DistSqOf(p, q) == VDot(VSub(p, q), VSub(p, q))

\* how far point p lies along the ray from the anchor to the target
Along(p) == VDot(VSub(p, Anchor), VSub(Target, Anchor))

LinkAt(k) == NewLinks[k].bundle.translation

StartsAtAnchorAndAdvances ==
    /\ LinkAt(1) = Anchor
    /\ \A k \in 1..(Len(NewLinks) - 1) : FLess(Along(LinkAt(k)), Along(LinkAt(k + 1)))

LastWithin(units) ==
    FLeq(DistSqOf(LinkAt(Len(NewLinks)), Target),
         F((units * SpacingOfClaims) * (units * SpacingOfClaims)))

\* C3 as claimed: with more than one link, link 0 is at the anchor, the links
\* advance strictly along the direction and the last link lies within one
\* spacing unit of the target.
Cex_C3 ==
    (JustSpawned /\ Len(NewLinks) > 1)
        => (StartsAtAnchorAndAdvances /\ LastWithin(1))

\* C3 as amended: with more than one link, link 0 is at the anchor, the links
\* advance strictly along the direction and the last link lies within three
\* spacing units of the target.
Thm_C3 ==
    (JustSpawned /\ Len(NewLinks) > 1)
        => (StartsAtAnchorAndAdvances /\ LastWithin(3))

\* a chain of 5 links whose last link is more than two spacing units short
Wit_C3 ==
    /\ JustSpawned
    /\ Len(NewLinks) = 5
    /\ StartsAtAnchorAndAdvances
    /\ ~LastWithin(2)
    /\ LastWithin(3)

----------------------------------------------------------------------------
(* C4 *)

\* every joint entity there is or is about to be
KnownJoints ==
    {e \in DOMAIN world : world[e].kind = "joint"}
    \cup {queue[k].entity : k \in {j \in DOMAIN queue : IsJointSpawn(queue[j])}}

LinkSet(c) == {c.links[k] : k \in DOMAIN c.links}

JointsFormPath(c) ==
    /\ Len(c.joints) + 1 = Len(c.links)
    /\ \A k \in DOMAIN c.joints :
          /\ Known(c.joints[k])
          /\ Bundle(c.joints[k]).kind = "joint"
          /\ Bundle(c.joints[k]).entity1 = c.links[k]
          /\ Bundle(c.joints[k]).entity2 = c.links[k + 1]
          /\ Bundle(c.joints[k]).entity1 # Bundle(c.joints[k]).entity2
    /\ \A l \in LinkSet(c) :
          Cardinality({j \in KnownJoints :
              l \in {Bundle(j).entity1, Bundle(j).entity2}}) <= 2

\* C4: in every registered chain the k-th joint connects link k-1 (first body)
\* and link k (second body); no joint joins a link to itself, no link is an
\* endpoint of more than two joints, and no joint reaches into another chain.
Thm_C4 ==
    \A i \in DOMAIN chains :
        /\ JointsFormPath(chains[i])
        /\ \A o \in DOMAIN chains : \A k \in DOMAIN chains[i].joints :
              o # i => /\ Bundle(chains[i].joints[k]).entity1 \notin LinkSet(chains[o])
                       /\ Bundle(chains[i].joints[k]).entity2 \notin LinkSet(chains[o])

\* two chains of three links, spawned and alive
Wit_C4 ==
    /\ Len(chains) >= 2
    /\ \A i \in 1..2 :
          /\ Len(chains[i].joints) = 2
          /\ \A k \in 1..2 : chains[i].joints[k] \in DOMAIN world

----------------------------------------------------------------------------
(* The systems' steps *)

InputStep == ran' = Append(ran, "handle_chain_input")

CleanupStep == ran' = Append(ran, "cleanup_expired_chains")

\* the entities a command queue despawns
DespawnsIn(q) == {q[k].entity : k \in {j \in DOMAIN q : q[j].op = "despawn"}}

ChainSet(chs) == {chs[k] : k \in DOMAIN chs}

RootOf(c) == c.links[1]

Roots(chs) == {RootOf(chs[k]) : k \in DOMAIN chs}

EntitiesOf(c) == LinkSet(c) \cup {c.joints[k] : k \in DOMAIN c.joints}

\* whether this frame's snapshot has a player and a cursor position
Aimed ==
    /\ input.player # None
    /\ input.window /\ input.camera /\ input.cursor_position # None

----------------------------------------------------------------------------
(* C5 *)

\* C5: a secondary action removes exactly the chain created earliest among
\* those registered (entity ids are reserved in increasing order, so that is
\* the chain with the smallest root id), and despawns its links and joints.
Thm_C5 ==
    [][(InputStep /\ input.right)
        => LET cands == Roots(chains)
                          \cup (IF input.left /\ Aimed THEN {nextEntity} ELSE {})
           IN  IF cands = {} THEN chains' = <<>> /\ queue' = queue
               ELSE LET oldest == CHOOSE r \in cands : \A x \in cands : r <= x
                    IN  /\ Roots(chains') = cands \ {oldest}
                        /\ Len(chains') = Cardinality(cands) - 1
                        /\ \A c \in ChainSet(chains) :
                              RootOf(c) = oldest => EntitiesOf(c) \subseteq DespawnsIn(queue')
                        /\ \A c \in ChainSet(chains) :
                              RootOf(c) # oldest => c \in ChainSet(chains')]_vars

\* chains A, B, C were built; a secondary action has just removed A (root 1)
\* and left B and C
Wit_C5 ==
    /\ phase = "update"
    /\ ran = <<"handle_chain_input">>
    /\ input.right /\ ~input.left
    /\ spawned = 3
    /\ Len(chains) = 2
    /\ queue # <<>> /\ queue[1] = [op |-> "despawn", entity |-> 1]

----------------------------------------------------------------------------
(* C6 *)

\* C6: in a sweep, a registered chain whose root has been ticked for less
\* than 5 in total stays registered; one whose total reaches 5 or more is
\* removed in that sweep and all its links and joints are despawned.
Thm_C6 ==
    [][CleanupStep
        => \A c \in ChainSet(chains) :
              IF RootOf(c) \in DOMAIN world
              THEN LET total == world[RootOf(c)].lifetime[1].elapsed + input.delta
                   IN  IF total < LifetimeSeconds
                       THEN c \in ChainSet(chains')
                       ELSE /\ c \notin ChainSet(chains')
                            /\ EntitiesOf(c) \subseteq DespawnsIn(queue')
              ELSE c \in ChainSet(chains')]_vars

\* a sweep has just removed an expired chain and kept one ticked to 4
Wit_C6 ==
    /\ phase = "update"
    /\ ran = <<"cleanup_expired_chains">>
    /\ \E e \in DOMAIN world :
          /\ world[e].kind = "link" /\ world[e].root
          /\ world[e].lifetime[1].finished
          /\ e \in DespawnsIn(queue)
          /\ e \notin Roots(chains)
    /\ \E c \in ChainSet(chains) :
          /\ RootOf(c) \in DOMAIN world
          /\ world[RootOf(c)].lifetime[1].elapsed = LifetimeSeconds - 1

----------------------------------------------------------------------------
(* C7 *)

\* no entity is issued two despawns, and none after it was despawned
NoDoubleDespawn ==
    /\ \A i, j \in DOMAIN queue :
          (i < j /\ queue[i].op = "despawn" /\ queue[j].op = "despawn")
              => queue[i].entity # queue[j].entity
    /\ \A e \in DespawnsIn(queue) : Known(e)

\* the roots whose countdown finishes in this frame's sweep
Firing ==
    {e \in DOMAIN world :
        /\ world[e].kind = "link" /\ world[e].root
        /\ world[e].lifetime[1].elapsed + input.delta >= LifetimeSeconds}

\* C7: in either order of the two systems, with the despawns still deferred,
\* no link or joint is issued a despawn twice, and a sweep in which only
\* countdowns of chains already removed this frame fire changes neither the
\* registry nor the commands.
Thm_C7 ==
    [][/\ NoDoubleDespawn'
       /\ (CleanupStep /\ Firing \subseteq DespawnsIn(queue))
             => (chains' = chains /\ queue' = queue)]_vars

\* a secondary action removed the oldest chain, then the sweep of the same
\* frame saw that chain's countdown finish, with other chains registered
Wit_C7 ==
    /\ phase = "update"
    /\ ran = <<"handle_chain_input", "cleanup_expired_chains">>
    /\ input.right /\ ~input.left
    /\ chains # <<>>
    /\ queue # <<>> /\ queue[1].op = "despawn"
    /\ queue[1].entity \in DOMAIN world
    /\ world[queue[1].entity].root
    /\ world[queue[1].entity].lifetime[1].finished
    /\ Cardinality(DespawnsIn(queue)) = Len(queue)

----------------------------------------------------------------------------
(* C8 *)

\* C8: a primary action without a player or without a cursor world position
\* creates no entity, applies no impulse and leaves the registry and every
\* chain as they were (but for what a secondary action of the same frame
\* removes).
Thm_C8 ==
    [][(InputStep /\ input.left /\ ~Aimed)
        => /\ nextEntity' = nextEntity
           /\ world' = world
           /\ \A k \in DOMAIN queue' : k > Len(queue) => queue'[k].op = "despawn"
           /\ IF input.right /\ chains # <<>>
              THEN chains' = Tail(chains)
              ELSE chains' = chains /\ queue' = queue]_vars

\* a left click with a player but no camera to project the cursor, on a
\* registry holding a chain
Wit_C8 ==
    /\ phase = "update"
    /\ HasRun("handle_chain_input")
    /\ input.left /\ ~input.right
    /\ input.player # None /\ input.cursor_position # None /\ ~input.camera
    /\ chains # <<>>
    /\ queue = <<>>

----------------------------------------------------------------------------
(* C9 *)

\* the impulse commands of this frame
IsImpulse(c) == c.op = "insert_impulse"

NewImpulses == SelectSeq(queue, IsImpulse)

\* C9: with the cursor exactly at the player position, the primary action
\* either creates no chain or creates a 1-link chain whose link is at that
\* point, with a defined orientation and impulse.
Cex_C9 ==
    (JustSpawned /\ DistSq = 0)
        => \/ NewLinks = <<>> /\ NewImpulses = <<>>
           \/ /\ Len(NewLinks) = 1
              /\ LinkAt(1) = Anchor
              /\ IsFinite(NewLinks[1].bundle.rotation.cos)
              /\ IsFinite(NewLinks[1].bundle.rotation.sin)
              /\ \A k \in DOMAIN NewImpulses : VIsFinite(NewImpulses[k].impulse)

----------------------------------------------------------------------------
(* C10 *)

\* the entities the commands after the first n of a queue are about
TargetsAfter(q, n) == {q[k].entity : k \in {j \in DOMAIN q : j > n}}

\* C10: a primary action with a player and a cursor appends exactly one new
\* chain, made of fresh entities, at the end of the registry, and leaves the
\* chains registered before as they were: same order, same handles, nothing
\* of theirs despawned, no countdown reset (but for the oldest chain when a
\* secondary action of the same frame removes it).
Thm_C10 ==
    [][(InputStep /\ input.left /\ Aimed)
        => LET before == IF input.right /\ chains # <<>> THEN Tail(chains) ELSE chains
               removed == IF input.right /\ chains # <<>> THEN EntitiesOf(chains[1]) ELSE {}
               kept == Len(chains') - 1
           IN  /\ world' = world
               /\ SubSeq(queue', 1, Len(queue)) = queue
               /\ IF input.right /\ chains = <<>>
                  THEN chains' = <<>>
                  ELSE /\ Len(chains') = Len(before) + 1
                       /\ SubSeq(chains', 1, kept) = before
                       /\ \A e \in EntitiesOf(chains'[kept + 1]) :
                             e >= nextEntity /\ e < nextEntity'
                       /\ DespawnsIn(queue') = DespawnsIn(queue) \cup removed
                       /\ \A e \in TargetsAfter(queue', Len(queue)) :
                             e >= nextEntity \/ e \in removed]_vars

\* a third chain appended behind two that are alive and counting down
Wit_C10 ==
    /\ JustSpawned
    /\ ~input.right
    /\ Len(chains) = 3
    /\ \A k \in 1..2 :
          /\ RootOf(chains[k]) \in DOMAIN world
          /\ world[RootOf(chains[k])].lifetime[1].elapsed > 0
    /\ RootOf(chains[3]) \notin DOMAIN world


----------------------------------------------------------------------------
(* C11 *)

\* C11: every chain in the registry has at least one link and exactly one
\* joint fewer than links.
Thm_C11 ==
    \A k \in DOMAIN chains :
        /\ Len(chains[k].links) >= 1
        /\ Len(chains[k].joints) = Len(chains[k].links) - 1

\* after three spawns and a removal, between frames: a chain of one link and
\* a chain of several links are registered
Wit_C11 ==
    /\ phase = "idle"
    /\ spawned = 3
    /\ Len(chains) = 2
    /\ \E k \in DOMAIN chains : Len(chains[k].links) = 1
    /\ \E k \in DOMAIN chains : Len(chains[k].links) > 2


----------------------------------------------------------------------------
(* C12 *)

\* the link and joint handles of all registered chains
Registered == UNION {EntitiesOf(chains[k]) : k \in DOMAIN chains}

\* C12: at every frame boundary, with the frame's commands applied, the live
\* link and joint entities are exactly the handles of the registered chains.
Thm_C12 == (phase = "idle") => (DOMAIN world = Registered)

\* between frames, after three spawns of which one chain is left, alive
Wit_C12 ==
    /\ phase = "idle"
    /\ spawned = 3
    /\ Len(chains) = 1
    /\ Len(chains[1].links) > 1
    /\ DOMAIN world # {}


----------------------------------------------------------------------------
(* C13 *)

\* the handles of a chain, links first, as one sequence
HandlesOf(c) == c.links \o c.joints

\* C13: no handle appears in two chains of the registry, none twice within
\* one chain, and none is both a link and a joint.
Thm_C13 ==
    /\ \A k \in DOMAIN chains :
          \A a, b \in DOMAIN HandlesOf(chains[k]) :
              a # b => HandlesOf(chains[k])[a] # HandlesOf(chains[k])[b]
    /\ \A k, o \in DOMAIN chains :
          k # o => EntitiesOf(chains[k]) \cap EntitiesOf(chains[o]) = {}

\* three chains registered, two of them with joints
Wit_C13 ==
    /\ Len(chains) = 3
    /\ Cardinality({k \in DOMAIN chains : chains[k].joints # <<>>}) >= 2


----------------------------------------------------------------------------
(* C14 *)

\* C14: a secondary action that finds the registry empty (no chain registered
\* and none built by a primary action of the same frame) issues no command,
\* reserves no entity and leaves the registry empty.
Thm_C14 ==
    [][(InputStep /\ input.right /\ chains = <<>> /\ ~(input.left /\ Aimed))
        => /\ chains' = <<>>
           /\ queue' = queue
           /\ world' = world
           /\ nextEntity' = nextEntity]_vars

\* the sweep of this frame removed the only chain, whose entities are still
\* alive, and then the secondary action found the registry empty
Wit_C14 ==
    /\ phase = "update"
    /\ ran = <<"cleanup_expired_chains", "handle_chain_input">>
    /\ input.right /\ ~input.left
    /\ chains = <<>>
    /\ spawned = 1
    /\ 1 \in DOMAIN world /\ world[1].lifetime[1].finished
    /\ DespawnsIn(queue) = DOMAIN world


----------------------------------------------------------------------------
(* C15 *)

\* C15: a chain built for a distance d with 0 < d < 2 * spacing has a single
\* link, placed exactly at the anchor, and no joint.
Thm_C15 ==
    (JustSpawned /\ DistSq > 0 /\ DistSq < (2 * SpacingOfClaims) * (2 * SpacingOfClaims))
        => /\ Len(NewLinks) = 1
           /\ LinkAt(1) = Anchor
           /\ NewJoints = <<>>
           /\ ~input.right
                 => /\ Len(chains) = 1
                    /\ chains[1].links = <<NewLinks[1].entity>>
                    /\ chains[1].joints = <<>>

\* a one-link chain built for a target 35 away, off the axes
Wit_C15 ==
    /\ JustSpawned
    /\ DistSq = 35 * 35
    /\ Target.x # Anchor.x /\ Target.y # Anchor.y
    /\ Len(NewLinks) = 1
    /\ ~input.right


----------------------------------------------------------------------------
(* C16 *)

\* C16: the registry is ordered by creation, oldest first: entity ids are
\* reserved in increasing order, so the root ids of the registered chains
\* increase strictly along the registry, whatever spawns, secondary removals
\* and sweeps (in any visiting order) came before.
Thm_C16 ==
    \A i, j \in DOMAIN chains :
        i < j => RootOf(chains[i]) < RootOf(chains[j])

\* of three chains, a sweep has just removed two at once and kept the third
Wit_C16 ==
    /\ phase = "update"
    /\ HasRun("cleanup_expired_chains")
    /\ ~input.right
    /\ spawned = 3
    /\ Len(chains) = 1
    /\ Cardinality({e \in DespawnsIn(queue) :
                       e \in LifetimeQuery(world)
                       /\ world[e].lifetime[1].finished}) = 2


----------------------------------------------------------------------------
(* C17 *)

\* whether an entity carries ChainRoot and ChainLifetime, or is about to: the
\* components of a chain built in this frame are still in the command queue
Marked(e) ==
    \/ /\ e \in DOMAIN world
       /\ world[e].kind = "link" /\ world[e].root /\ world[e].lifetime # None
    \/ \E k \in DOMAIN queue : queue[k].op = "insert_root" /\ queue[k].entity = e

RootIsFirstLink ==
    \A c \in ChainSet(chains) :
        \A k \in DOMAIN c.links : Marked(c.links[k]) <=> (k = 1)

\* C17: every registered chain has exactly one link with the root marker and
\* the countdown, its first link; and a sweep removes exactly the chains whose
\* first link is a root whose countdown finishes, keeping the others as they
\* are and in their order.
Thm_C17 ==
    [][/\ RootIsFirstLink'
       /\ CleanupStep
             => LET Stays(c) == RootOf(c) \notin Firing
                IN  chains' = SelectSeq(chains, Stays)]_vars

\* of three chains of several links, the sweep has just removed the middle
\* one or the two outer ones by their roots, before any input was handled
Wit_C17 ==
    /\ phase = "update"
    /\ ran = <<"cleanup_expired_chains">>
    /\ spawned = 3
    /\ chains # <<>>
    /\ \A c \in ChainSet(chains) : Len(c.links) > 1
    /\ \E e \in LifetimeQuery(world) :
          /\ world[e].lifetime[1].finished
          /\ e \notin Roots(chains)
          /\ e + 1 \in DOMAIN world /\ world[e + 1].kind = "link"
          /\ DespawnsIn(queue) \cap {e, e + 1} = {e, e + 1}


----------------------------------------------------------------------------
(* C18 *)

\* a frame with a positive time delta begins
TickPositive == BeginFrameLive /\ input'.delta > 0

\* the entity ids a run may reserve: at most 2 * n - 1 per chain of n links
EntityIds == 1..(MaxLiveChains * (2 * ((5 * LiveReach) \div LinkSize) + 1))

\* C18: if frames with a positive delta keep beginning, every link and joint
\* of a registered chain is eventually out of the registry and despawned,
\* whether or not a secondary action is ever triggered.
Thm_C18 ==
    ([]<><<TickPositive>>_vars)
        => \A e \in EntityIds :
              (e \in Registered) ~> (e \notin Registered /\ e \notin DOMAIN world)

\* with no secondary action in this frame, the sweep has just removed the last
\* registered chain, whose countdown ran out
Wit_C18 ==
    /\ phase = "update"
    /\ HasRun("cleanup_expired_chains")
    /\ ~input.right /\ ~input.left
    /\ spawned = MaxLiveChains
    /\ chains = <<>>
    /\ \E e \in LifetimeQuery(world) :
          /\ world[e].lifetime[1].finished
          /\ e \in DespawnsIn(queue)
          /\ e + 1 \in DespawnsIn(queue)


----------------------------------------------------------------------------
(* C19 *)

\* the entity ids reserved by the step
Fresh == nextEntity..(nextEntity' - 1)

\* C19: with a primary action (player and cursor present) and a secondary one
\* in the same frame, the chain is built before the oldest chain is removed.
\* On a registry that holds chains, the oldest of them is removed and
\* despawned and the new chain is registered last, with none of its entities
\* despawned. On an empty registry the new chain is itself the one removed:
\* the registry stays empty, each of its entities is spawned and then
\* despawned, and none is alive once the frame's commands are applied.
Thm_C19 ==
    [][(InputStep /\ input.left /\ Aimed /\ input.right)
        => /\ Fresh # {}
           /\ \A e \in Fresh :
                 \E k \in DOMAIN queue' : queue'[k].op = "spawn" /\ queue'[k].entity = e
           /\ IF chains # <<>>
              THEN /\ Len(chains') = Len(chains)
                   /\ SubSeq(chains', 1, Len(chains) - 1) = Tail(chains)
                   /\ EntitiesOf(chains'[Len(chains')]) = Fresh
                   /\ EntitiesOf(chains[1]) \subseteq DespawnsIn(queue')
                   /\ DespawnsIn(queue') \cap Fresh = {}
              ELSE /\ chains' = <<>>
                   /\ \A e \in Fresh :
                         \E i, j \in DOMAIN queue' :
                             /\ i < j
                             /\ queue'[i].op = "spawn" /\ queue'[i].entity = e
                             /\ queue'[j].op = "despawn" /\ queue'[j].entity = e
                   /\ DOMAIN ApplyCommands(queue', world) \cap Fresh = {}]_vars

\* both buttons on an empty registry: the first chain ever built has just been
\* spawned and despawned by the same run of handle_chain_input
Wit_C19 ==
    /\ phase = "update"
    /\ HasRun("handle_chain_input")
    /\ input.left /\ input.right /\ Aimed
    /\ spawned = 1
    /\ chains = <<>>
    /\ nextEntity > 3
    /\ \E i, j \in DOMAIN queue :
          /\ i < j
          /\ queue[i].op = "spawn" /\ queue[i].entity = 1
          /\ queue[j] = [op |-> "despawn", entity |-> 1]


----------------------------------------------------------------------------
(* C20 *)

\* the time a chain's countdown has accumulated; the countdown of a chain
\* built in this frame is still in the command queue, with nothing elapsed
Elapsed(c) ==
    IF RootOf(c) \in DOMAIN world
    THEN world[RootOf(c)].lifetime[1].elapsed
    ELSE 0

ElapsedOrdered ==
    \A i, j \in DOMAIN chains :
        i < j => Elapsed(chains[i]) >= Elapsed(chains[j])

\* C20: of two registered chains the older has accumulated at least as much
\* countdown as the newer; so a sweep leaves no chain older than one it
\* removed, and a secondary action removes a chain that no remaining chain
\* has outrun.
Thm_C20 ==
    [][/\ ElapsedOrdered'
       /\ CleanupStep
             => \A gone \in ChainSet(chains) \ ChainSet(chains') :
                   \A kept \in ChainSet(chains') : RootOf(gone) < RootOf(kept)
       /\ (InputStep /\ input.right /\ chains # <<>>)
             => /\ chains[1] \notin ChainSet(chains')
                /\ \A kept \in ChainSet(chains') :
                      Elapsed(chains[1]) >= Elapsed(kept)]_vars

\* three chains were built; two are registered, the older strictly ahead of
\* the newer in its countdown
Wit_C20 ==
    /\ phase = "idle"
    /\ spawned = 3
    /\ Len(chains) = 2
    /\ Elapsed(chains[2]) > 0
    /\ Elapsed(chains[1]) > Elapsed(chains[2])

====
